---- MODULE Spec2Model ----
(***************************************************************************)
(* A model of flep's coroutine layer: the function coroutine wrapper       *)
(* (init / resume / is_valid / access), the component parameters Rd / Wr   *)
(* and the control parameter Fib, the access set, the signal channel, the  *)
(* world window and the race combinator ParOr.                             *)
(***************************************************************************)
EXTENDS Integers, Sequences, FiniteSets, TLC

(* ----------------------------- bounds --------------------------------- *)

\* Longest parameter tuple of a coroutine function.
MaxParams == 2
\* Most resume calls the driver makes on one coroutine.
MaxResumes == 3

\* Most coroutines in the driver's registry.
MaxCoros == 3

\* Most children a combinator is offered.
MaxChildren == 2
\* Most resumes a child's body takes to complete.
MaxNeed == 5
\* Most polls made of one combinator.
MaxPolls == 4

\* Longest duration waited for, and longest tick, in units of time.
MaxDuration == 6
MaxDelta == 3

(* ----------------------------- values --------------------------------- *)

Entities == {"e1", "e2"}
\* Option<Entity>::None of CoroMeta.owner.
NoOwner == "none"
Owners == Entities \cup {NoOwner}

\* The component types a coroutine function can name.
CompTypes == {"A", "B"}

\* A parameter type of a coroutine function: Rd<T>, Wr<T> or Fib.
ParamTypes ==
    [kind : {"Rd", "Wr"}, comp : CompTypes] \cup {[kind |-> "Fib", comp |-> "A"]}

RECURSIVE SeqsUpTo(_, _)
SeqsUpTo(S, n) ==
    IF n = 0 THEN {<<>>}
    ELSE LET shorter == SeqsUpTo(S, n - 1)
         IN  shorter \cup {Append(s, x) : s \in {t \in shorter : Len(t) = n - 1}, x \in S}

ParamLists == SeqsUpTo(ParamTypes, MaxParams)

\* WaitingReason, by its tag; NoReason is the empty slot of the channel.
NoReason == "None"
Reasons == {"NextTick", "Duration", "ParOr", "ParAnd"}

(* --------------------------- access set ------------------------------- *)

\* CoroAccess::default(): no entry.
EmptyAccess == [reads |-> {}, writes |-> {}]

\* The key of an entry: (SourceId::Entity(owner), ComponentId).
Key(owner, id) == <<owner, id>>

\* add_read: refused when the key is written; otherwise the read is inserted.
add_read(access, key) ==
    IF key \in access.writes
    THEN [ok |-> FALSE, access |-> access]
    ELSE [ok |-> TRUE, access |-> [access EXCEPT !.reads = @ \cup {key}]]

\* add_write: refused when the key is read or written; otherwise inserted.
add_write(access, key) ==
    IF key \in access.reads \/ key \in access.writes
    THEN [ok |-> FALSE, access |-> access]
    ELSE [ok |-> TRUE, access |-> [access EXCEPT !.writes = @ \cup {key}]]

\* Two access sets conflict iff they share a key and one of the two writes it.
Conflicts(a, b) ==
    \/ a.writes \cap (b.reads \cup b.writes) # {}
    \/ b.writes \cap (a.reads \cup a.writes) # {}

(* ------------------------------ store --------------------------------- *)

\* world.components().component_id::<T>(): Some(id) iff T is registered.
component_id(w, T) == IF T \in w.registered THEN T ELSE "unregistered"

\* world.get_entity(owner).contains::<T>()
entity_contains(w, e, T) == e \in w.alive /\ T \in w.comps[e]

(* ---------------------------- parameters ------------------------------ *)

\* A mutant of Rd_init: the entry is registered as a write.
Rd_init_as_write(w, owner, access, T) ==
    IF component_id(w, T) = "unregistered" THEN [ok |-> FALSE, access |-> access]
    ELSE IF owner = NoOwner THEN [ok |-> FALSE, access |-> access]
    ELSE add_write(access, Key(owner, component_id(w, T)))

\* Rd::init: the component id, then the owner, then add_read.
Rd_init(w, owner, access, T) ==
    IF component_id(w, T) = "unregistered" THEN [ok |-> FALSE, access |-> access]
    ELSE IF owner = NoOwner THEN [ok |-> FALSE, access |-> access]
    ELSE add_read(access, Key(owner, component_id(w, T)))

\* A mutant of Wr_init: the entry is registered as a read.
Wr_init_as_read(w, owner, access, T) ==
    IF component_id(w, T) = "unregistered" THEN [ok |-> FALSE, access |-> access]
    ELSE IF owner = NoOwner THEN [ok |-> FALSE, access |-> access]
    ELSE add_read(access, Key(owner, component_id(w, T)))

\* Wr::init: the component id, then the owner, then add_write.
Wr_init(w, owner, access, T) ==
    IF component_id(w, T) = "unregistered" THEN [ok |-> FALSE, access |-> access]
    ELSE IF owner = NoOwner THEN [ok |-> FALSE, access |-> access]
    ELSE add_write(access, Key(owner, component_id(w, T)))

\* Fib::init: always Some, the access set is not touched.
Fib_init(w, owner, access) == [ok |-> TRUE, access |-> access]

CoroParam_init(p, w, owner, access) ==
    CASE p.kind = "Rd" -> Rd_init(w, owner, access, p.comp)
      [] p.kind = "Wr" -> Wr_init(w, owner, access, p.comp)
      [] OTHER -> Fib_init(w, owner, access)

\* F::Params::init on a tuple: left to right, `?` on the first failure.  The
\* access returned with a failure is what the local set held at that point.
RECURSIVE Params_init(_, _, _, _)
Params_init(params, w, owner, access) ==
    IF params = <<>> THEN [ok |-> TRUE, access |-> access]
    ELSE LET r == CoroParam_init(Head(params), w, owner, access)
         IN  IF r.ok THEN Params_init(Tail(params), w, owner, r.access)
             ELSE [ok |-> FALSE, access |-> r.access]

\* A mutant of Rd_is_valid: the entity is looked up, the component is not.
Rd_is_valid_entity_only(w, owner, T) ==
    IF owner # NoOwner /\ owner \in w.alive THEN TRUE ELSE FALSE

\* Rd::is_valid: the owner is Some and the entity exists, then
\* entity.contains::<T>(); false otherwise.
Rd_is_valid(w, owner, T) ==
    IF owner # NoOwner /\ owner \in w.alive THEN entity_contains(w, owner, T) ELSE FALSE

\* Wr::is_valid: as Rd::is_valid.
Wr_is_valid(w, owner, T) ==
    IF owner # NoOwner /\ owner \in w.alive THEN entity_contains(w, owner, T) ELSE FALSE

\* Fib::is_valid: true.
Fib_is_valid(w, owner) == TRUE

CoroParam_is_valid(p, w, owner) ==
    CASE p.kind = "Rd" -> Rd_is_valid(w, owner, p.comp)
      [] p.kind = "Wr" -> Wr_is_valid(w, owner, p.comp)
      [] OTHER -> Fib_is_valid(w, owner)

\* F::Params::is_valid on a tuple: every parameter is valid.
Params_is_valid(params, w, owner) ==
    \A i \in 1..Len(params) : CoroParam_is_valid(params[i], w, owner)

(* ------------------------ function coroutine -------------------------- *)

\* Option<FunctionCoroutine>::None.
NoCoroutine ==
    [some |-> FALSE, owner |-> NoOwner, params |-> <<>>, access |-> EmptyAccess,
     window |-> "closed", channel |-> NoReason, invoked |-> FALSE]

\* A mutant of init: a failed construction hands out what was reserved so far.
init_leaks(f, owner, w) ==
    LET r == Params_init(f, w, owner, EmptyAccess)
    IN  IF r.ok
        THEN [some |-> TRUE, owner |-> owner, params |-> f, access |-> r.access,
              window |-> "closed", channel |-> NoReason, invoked |-> TRUE]
        ELSE [NoCoroutine EXCEPT !.access = r.access]

\* UninitCoroutine::init: a fresh channel, a closed window, a fresh access
\* set; the parameters; then the wrapped function is invoked (self.init).
init(f, owner, w) ==
    LET r == Params_init(f, w, owner, EmptyAccess)
    IN  IF r.ok
        THEN [some |-> TRUE, owner |-> owner, params |-> f, access |-> r.access,
              window |-> "closed", channel |-> NoReason, invoked |-> TRUE]
        ELSE NoCoroutine

\* A mutant of is_valid: the coroutine is reported valid whatever the store.
is_valid_always(c, w) == TRUE

\* FunctionCoroutine::is_valid: F::Params::is_valid(self.owner, world).
is_valid(c, w) == Params_is_valid(c.params, w, c.owner)

\* A mutant of access: the coroutine reports no entry.
access_none(c) == EmptyAccess

\* FunctionCoroutine::access
access(c) == c.access

(* ----------------------- window and channel -------------------------- *)

\* WorldWindow::scope, entry: the window holds the store for the body.
scope_enter(c) == [c EXCEPT !.window = "open"]
\* WorldWindow::scope, exit: the window is closed, also when the body unwinds.
scope_exit(c) == [c EXCEPT !.window = "closed"]
\* YieldChannel::send
send(c, reason) == [c EXCEPT !.channel = reason]
\* YieldChannel::receive: takes the slot.
receive(c) == [value |-> c.channel, coro |-> [c EXCEPT !.channel = NoReason]]

\* WorldWindow::world_cell, the raw capability of the window, by the outcomes
\* of a call; every clone of the window looks at the same cell.  An open
\* window gives the store.  A closed one holds no capability and the call is
\* not checked: it faults, or it hands out a reference that leads nowhere.
world_cell(c) == IF c.window = "open" THEN {"store"} ELSE {"fault", "dangling"}

\* The outcomes of Rd::get: world_cell() of the window, then
\* get_entity(owner).unwrap(), then get::<T>().unwrap().
Rd_get(c, w, T) ==
    {IF cell = "fault" THEN "fault"
     ELSE IF entity_contains(w, c.owner, T) THEN "value" ELSE "unwrap" : cell \in world_cell(c)}

\* The outcomes of Wr::get: as Rd::get.
Wr_get(c, w, T) ==
    {IF cell = "fault" THEN "fault"
     ELSE IF entity_contains(w, c.owner, T) THEN "value" ELSE "unwrap" : cell \in world_cell(c)}

\* ParOr::with, lines 37-41: fib.world_window.world_cell().world_mut(), the
\* store a child is constructed against, by the outcomes of the call.
with_world(fib) == {IF cell = "fault" THEN "fault" ELSE "value" : cell \in world_cell(fib)}

(* ------------------------------ resume -------------------------------- *)

\* A mutant of resume_match: the access set is released while suspended.
resume_match_releases(c, pollres) ==
    IF pollres = "Ready" THEN [coro |-> c, result |-> "Done"]
    ELSE LET r == receive(c)
         IN  [coro |-> [r.coro EXCEPT !.access = EmptyAccess],
              result |-> IF r.value = NoReason THEN "ERR_WRONGAWAIT" ELSE r.value]

\* A mutant of resume_match: the reason is read without being taken.
resume_match_peek(c, pollres) ==
    IF pollres = "Ready" THEN [coro |-> c, result |-> "Done"]
    ELSE [coro |-> c,
          result |-> IF c.channel = NoReason THEN "ERR_WRONGAWAIT" ELSE c.channel]

\* A mutant of resume_match: a missing reason is passed over as NextTick.
resume_match_default(c, pollres) ==
    IF pollres = "Ready" THEN [coro |-> c, result |-> "Done"]
    ELSE LET r == receive(c)
         IN  [coro |-> r.coro,
              result |-> IF r.value = NoReason THEN "NextTick" ELSE r.value]

\* resume, lines 53-58: Ready gives Done; Pending gives Yield(receive()),
\* and panics with ERR_WRONGAWAIT when the channel is empty.
resume_match(c, pollres) ==
    IF pollres = "Ready" THEN [coro |-> c, result |-> "Done"]
    ELSE LET r == receive(c)
         IN  [coro |-> r.coro,
              result |-> IF r.value = NoReason THEN "ERR_WRONGAWAIT" ELSE r.value]

\* resume, lines 45-59, as one step.  body is what the one poll of the wrapped
\* future does: [poll |-> Ready or Pending, send |-> the reason sent or NoReason].
resume(c, body) ==
    LET entered == scope_enter(c)
        polled == IF body.send = NoReason THEN entered ELSE send(entered, body.send)
    IN  resume_match(scope_exit(polled), body.poll)

(* ------------------------------ state --------------------------------- *)

VARIABLES
    world,      \* the store: registered component types, live entities, components
    \* one function coroutine and the driver's calls on it
    asked,      \* the construction the driver asked for: function and owner
    coro,       \* the coroutine init returned (NoCoroutine: none)
    phase,      \* where the driver is: "new", "idle", inside resume, or ended
    poll,       \* Poll of the wrapped future in the resume in progress
    sent,       \* the reason the body sent during the poll in progress
    result,     \* what the last resume call returned
    resumes,    \* resume calls made so far
    probe,      \* the call just made beside resume: operation, phase, outcome
    tally,      \* reasons sent by the body and reasons returned by resume so far
    \* one access set and the calls made on it
    aset,       \* the access set
    last,       \* the last call: operation, key, the set before, the answer
    \* the driver's registry and the coroutines it runs in a tick
    registry,   \* the coroutines constructed and registered, in order
    running,    \* the positions in the registry selected to run this tick
    ticking,    \* a tick is in progress
    cancelled,  \* the coroutines the driver cancelled at the start of this tick
    vlast,      \* the last validity check of one parameter: owner, parameter, answer
    \* a coroutine awaiting a combinator, its children and the driver's ticks
    parent,     \* the coroutine whose body builds and awaits the combinator
    called,     \* the method of Fib the body called: par_or or par_and
    comb,       \* the combinator: kind, children, state
    held,       \* the wait the driver holds: mode and the children handed over
    kids,       \* per child added: resumes needed, ticks it was resumed at
    offered,    \* children offered to the combinator so far
    ppos,       \* where the parent is: idle, body, halted, resolved, fatal
    wake,       \* the driver is about to resume the parent
    tick,       \* driver ticks since the parent suspended
    resolvedAt, \* the tick at which the await resolved (-1: not yet)
    lastWith,   \* the last with in the body: the combinator before it, the child
    ptally,     \* polls of the combinator: made, returned Pending, back to Running
    \* a coroutine awaiting a duration
    waiter,     \* the coroutine whose body awaits fib.duration(d)
    wanted,     \* the duration the body asked for
    timer,      \* the duration wait: duration, time remaining, state
    deltas,     \* the tick lengths the driver supplied, one per resume
    dpos        \* where the waiter is: idle, waiting, done, fatal

resumeVars == <<asked, coro, phase, poll, sent, result, resumes, probe, tally>>
accessVars == <<aset, last>>
schedVars == <<registry, running, ticking, cancelled, vlast>>
parVars == <<parent, called, comb, held, kids, offered, ppos, wake, tick, resolvedAt,
            lastWith, ptally>>

durVars == <<waiter, wanted, timer, deltas, dpos>>

vars == <<world, resumeVars, accessVars, schedVars, parVars, durVars>>

Worlds ==
    [registered : SUBSET CompTypes, alive : {Entities}, comps : {[e \in Entities |-> CompTypes]}]

NoProbe == [op |-> "none", at |-> "new", got |-> "none"]

InitResume ==
    /\ asked = [f |-> <<>>, owner |-> NoOwner]
    /\ coro = NoCoroutine
    /\ phase = "new"
    /\ poll = "none"
    /\ sent = NoReason
    /\ result = "none"
    /\ resumes = 0
    /\ probe = NoProbe
    /\ tally = [sends |-> 0, yields |-> 0]

NoCall == [op |-> "none", key |-> Key(NoOwner, "A"), before |-> EmptyAccess, ok |-> FALSE]

InitAccess ==
    /\ aset = EmptyAccess
    /\ last = NoCall

NoCheck == [asked |-> FALSE, owner |-> NoOwner, param |-> [kind |-> "Fib", comp |-> "A"],
            valid |-> FALSE]

InitSched ==
    /\ registry = <<>>
    /\ running = <<>>
    /\ ticking = FALSE
    /\ cancelled = 0
    /\ vlast = NoCheck

NoComb == [kind |-> "none", coroutines |-> <<>>, state |-> "Running"]
NoWait == [mode |-> NoReason, children |-> <<>>]

NoWith == [asked |-> FALSE, before |-> NoComb, uninit |-> [params |-> <<>>, need |-> 1]]
NoPolls == [polls |-> 0, pendings |-> 0, restored |-> 0]

InitPar ==
    /\ parent = NoCoroutine
    /\ called = "none"
    /\ comb = NoComb
    /\ held = NoWait
    /\ kids = <<>>
    /\ offered = 0
    /\ ppos = "idle"
    /\ wake = FALSE
    /\ tick = 0
    /\ resolvedAt = -1
    /\ lastWith = NoWith
    /\ ptally = NoPolls

NoTimer == [duration |-> 0, remaining |-> 0, state |-> "none"]

InitDur ==
    /\ waiter = NoCoroutine
    /\ wanted = 0
    /\ timer = NoTimer
    /\ deltas = <<>>
    /\ dpos = "idle"

(* --------------------- one coroutine and its driver -------------------- *)

notResume == <<accessVars, schedVars, parVars, durVars>>

Init ==
    /\ world \in Worlds
    /\ InitResume
    /\ InitAccess
    /\ InitSched
    /\ InitPar
    /\ InitDur

\* The driver constructs a coroutine from a function f for an owner.
Construct(f, owner) ==
    /\ phase = "new"
    /\ asked' = [f |-> f, owner |-> owner]
    /\ coro' = init(f, owner, world)
    /\ phase' = IF coro'.some THEN "idle" ELSE "rejected"
    /\ probe' = NoProbe
    /\ UNCHANGED <<world, poll, sent, result, resumes, tally, notResume>>

\* resume, line 51: scope opens the window bound to the store.
ResumeEnter ==
    /\ phase = "idle"
    /\ resumes < MaxResumes
    /\ resumes' = resumes + 1
    /\ coro' = scope_enter(coro)
    /\ phase' = "scoped"
    /\ poll' = "none"
    /\ sent' = NoReason
    /\ result' = "none"
    /\ probe' = NoProbe
    /\ UNCHANGED <<world, asked, tally, notResume>>

\* resume, line 51: the one poll of the wrapped future, inside the scope.
\* The body completes, suspends on a future of the library (which sends its
\* reason), suspends on a foreign future (nothing sent), or unwinds.
PollReady ==
    /\ phase = "scoped"
    /\ poll' = "Ready"
    /\ phase' = "polled"
    /\ probe' = NoProbe
    /\ UNCHANGED <<world, asked, coro, sent, result, resumes, tally, notResume>>

PollPendingSent(reason) ==
    /\ phase = "scoped"
    /\ coro' = send(coro, reason)
    /\ sent' = reason
    /\ poll' = "Pending"
    /\ phase' = "polled"
    /\ tally' = [tally EXCEPT !.sends = @ + 1]
    /\ probe' = NoProbe
    /\ UNCHANGED <<world, asked, result, resumes, notResume>>

PollPendingForeign ==
    /\ phase = "scoped"
    /\ poll' = "Pending"
    /\ phase' = "polled"
    /\ probe' = NoProbe
    /\ UNCHANGED <<world, asked, coro, sent, result, resumes, tally, notResume>>

PollUnwind ==
    /\ phase = "scoped"
    /\ poll' = "Unwind"
    /\ phase' = "polled"
    /\ probe' = NoProbe
    /\ UNCHANGED <<world, asked, coro, sent, result, resumes, tally, notResume>>

\* A mutant of ScopeLeave: the window is closed on the normal path only.
ScopeLeave_no_guard ==
    /\ phase = "polled"
    /\ coro' = IF poll = "Unwind" THEN coro ELSE scope_exit(coro)
    /\ phase' = IF poll = "Unwind" THEN "unwound" ELSE "matching"
    /\ probe' = NoProbe
    /\ UNCHANGED <<world, asked, poll, sent, result, resumes, tally, notResume>>

\* resume, line 51: scope returns (or the unwinding leaves it).
ScopeLeave ==
    /\ phase = "polled"
    /\ coro' = scope_exit(coro)
    /\ phase' = IF poll = "Unwind" THEN "unwound" ELSE "matching"
    /\ probe' = NoProbe
    /\ UNCHANGED <<world, asked, poll, sent, result, resumes, tally, notResume>>

\* resume, lines 53-58: the match on the poll.
ResumeMatch ==
    /\ phase = "matching"
    /\ LET r == resume_match(coro, poll)
       IN  /\ coro' = r.coro
           /\ result' = r.result
           /\ phase' = CASE r.result = "Done" -> "done"
                         [] r.result = "ERR_WRONGAWAIT" -> "fatal"
                         [] OTHER -> "idle"
           /\ tally' = IF r.result \in Reasons THEN [tally EXCEPT !.yields = @ + 1]
                       ELSE tally
    /\ probe' = NoProbe
    /\ UNCHANGED <<world, asked, poll, sent, resumes, notResume>>

\* The driver asks the coroutine whether it can still run.
IsValid ==
    /\ phase = "idle"
    /\ probe' = [op |-> "is_valid", at |-> phase,
                 got |-> IF is_valid(coro, world) THEN "valid" ELSE "invalid"]
    /\ UNCHANGED <<world, asked, coro, phase, poll, sent, result, resumes, tally, notResume>>

\* A holder of a clone of the window asks it for the store: the parameter
\* i of the coroutine (Rd::get, Wr::get) or a race built on its Fib (with).
WindowAccess(i) ==
    /\ coro.some
    /\ i \in 1..Len(coro.params)
    /\ LET p == coro.params[i]
           op == CASE p.kind = "Rd" -> "Rd::get"
                   [] p.kind = "Wr" -> "Wr::get"
                   [] OTHER -> "ParOr::with"
           outcomes == CASE p.kind = "Rd" -> Rd_get(coro, world, p.comp)
                         [] p.kind = "Wr" -> Wr_get(coro, world, p.comp)
                         [] OTHER -> with_world(coro)
       IN  \E got \in outcomes : probe' = [op |-> op, at |-> phase, got |-> got]
    /\ UNCHANGED <<world, asked, coro, phase, poll, sent, result, resumes, tally, notResume>>

Next ==
    \/ \E f \in ParamLists, owner \in Owners : Construct(f, owner)
    \/ ResumeEnter
    \/ PollReady
    \/ \E reason \in Reasons : PollPendingSent(reason)
    \/ PollPendingForeign
    \/ PollUnwind
    \/ ScopeLeave
    \/ ResumeMatch
    \/ IsValid
    \/ \E i \in 1..MaxParams : WindowAccess(i)

Spec == Init /\ [][Next]_vars

(* ------------------- calls on one access set --------------------------- *)

notAccess == <<resumeVars, schedVars, parVars, durVars>>

InitA ==
    /\ world \in Worlds
    /\ InitResume
    /\ InitAccess
    /\ InitSched
    /\ InitPar
    /\ InitDur

Keys == {Key(o, T) : o \in Entities, T \in CompTypes}

\* add_read(source, field) on the set.
AddRead(key) ==
    /\ LET r == add_read(aset, key)
       IN  /\ aset' = r.access
           /\ last' = [op |-> "add_read", key |-> key, before |-> aset, ok |-> r.ok]
    /\ UNCHANGED <<world, notAccess>>

\* add_write(source, field) on the set.
AddWrite(key) ==
    /\ LET r == add_write(aset, key)
       IN  /\ aset' = r.access
           /\ last' = [op |-> "add_write", key |-> key, before |-> aset, ok |-> r.ok]
    /\ UNCHANGED <<world, notAccess>>

\* Rd::<T>::init for a coroutine of this owner, on the set.
RdInit(owner, T) ==
    /\ LET r == Rd_init(world, owner, aset, T)
       IN  /\ aset' = r.access
           /\ last' = [op |-> "Rd", key |-> Key(owner, T), before |-> aset, ok |-> r.ok]
    /\ UNCHANGED <<world, notAccess>>

\* Wr::<T>::init for a coroutine of this owner, on the set.
WrInit(owner, T) ==
    /\ LET r == Wr_init(world, owner, aset, T)
       IN  /\ aset' = r.access
           /\ last' = [op |-> "Wr", key |-> Key(owner, T), before |-> aset, ok |-> r.ok]
    /\ UNCHANGED <<world, notAccess>>

\* Fib::init for a coroutine of this owner, on the set.
FibInit(owner) ==
    /\ LET r == Fib_init(world, owner, aset)
       IN  /\ aset' = r.access
           /\ last' = [op |-> "Fib", key |-> Key(owner, "A"), before |-> aset, ok |-> r.ok]
    /\ UNCHANGED <<world, notAccess>>

NextA ==
    \/ \E key \in Keys : AddRead(key)
    \/ \E key \in Keys : AddWrite(key)
    \/ \E owner \in Owners, T \in CompTypes : RdInit(owner, T)
    \/ \E owner \in Owners, T \in CompTypes : WrInit(owner, T)
    \/ \E owner \in Owners : FibInit(owner)

SpecA == InitA /\ [][NextA]_vars

(* ------------------ the driver's choice for a tick --------------------- *)

notSched == <<resumeVars, accessVars, parVars, durVars>>

InitS ==
    /\ world \in Worlds
    /\ InitResume
    /\ InitAccess
    /\ InitSched
    /\ InitPar
    /\ InitDur

\* The coroutine functions registered with the driver.
SchedFns ==
    {f \in SeqsUpTo(ParamTypes \ {[kind |-> "Fib", comp |-> "A"]}, Cardinality(CompTypes)) :
        \A i, j \in 1..Len(f) : i < j => f[i].comp # f[j].comp}

\* The coroutines run in a tick: the registry in order, each one taken unless
\* its access() conflicts with the access() of one already taken.
RECURSIVE select(_, _, _)
select(reg, i, taken) ==
    IF i > Len(reg) THEN taken
    ELSE IF \E k \in 1..Len(taken) : Conflicts(access(reg[i]), access(reg[taken[k]]))
         THEN select(reg, i + 1, taken)
         ELSE select(reg, i + 1, Append(taken, i))

\* construct(owner, store): only a constructed coroutine enters the registry.
Register(f, owner) ==
    /\ ~ticking
    /\ Len(registry) < MaxCoros
    /\ LET c == init(f, owner, world)
       IN  registry' = IF c.some THEN Append(registry, c) ELSE registry
    /\ UNCHANGED <<world, running, ticking, cancelled, vlast, notSched>>

\* The driver starts a tick: is_valid is checked before each resume, and a
\* coroutine that is not valid is cancelled and leaves the registry; then it
\* settles which of the others run in the tick.
TickBegin ==
    /\ ~ticking
    /\ registry # <<>>
    /\ ticking' = TRUE
    /\ LET valid(c) == is_valid(c, world)
           kept == SelectSeq(registry, valid)
       IN  /\ registry' = kept
           /\ cancelled' = Len(registry) - Len(kept)
           /\ running' = select(kept, 1, <<>>)
    /\ UNCHANGED <<world, vlast, notSched>>

\* The tick ends: the coroutines selected have been resumed.
TickEnd ==
    /\ ticking
    /\ ticking' = FALSE
    /\ running' = <<>>
    /\ cancelled' = 0
    /\ UNCHANGED <<world, registry, vlast, notSched>>

NextS ==
    \/ \E f \in SchedFns, owner \in Owners : Register(f, owner)
    \/ TickBegin
    \/ TickEnd

SpecS == InitS /\ [][NextS]_vars

(* ------------- the driver and a store that changes between ticks -------- *)

\* The store at the start: every component type registered, every entity
\* alive with every component.
WorldsV == {w \in Worlds : w.registered = CompTypes}

InitV ==
    /\ world \in WorldsV
    /\ InitResume
    /\ InitAccess
    /\ InitSched
    /\ InitPar
    /\ InitDur

\* The coroutine functions registered: control only, one component, or two.
ValidFns ==
    {<<[kind |-> "Fib", comp |-> "A"]>>,
     <<[kind |-> "Rd", comp |-> "A"]>>,
     <<[kind |-> "Rd", comp |-> "A"], [kind |-> "Wr", comp |-> "B"]>>}

\* The entity whose components and life change between ticks.
Mortal == {"e1"}

\* Between two ticks the entity is despawned: it leaves the store with its
\* components.
Despawn(e) ==
    /\ ~ticking
    /\ e \in world.alive
    /\ world' = [world EXCEPT !.alive = @ \ {e}, !.comps[e] = {}]
    /\ vlast' = NoCheck
    /\ UNCHANGED <<registry, running, ticking, cancelled, notSched>>

\* Between two ticks a component is removed from the entity.
RemoveComponent(e, T) ==
    /\ ~ticking
    /\ e \in world.alive
    /\ T \in world.comps[e]
    /\ world' = [world EXCEPT !.comps[e] = @ \ {T}]
    /\ vlast' = NoCheck
    /\ UNCHANGED <<registry, running, ticking, cancelled, notSched>>

\* The validity check of one parameter for an owner, against the store.
ParamIsValid(p, owner) ==
    /\ ~ticking
    /\ registry = <<>>
    /\ vlast' = [asked |-> TRUE, owner |-> owner, param |-> p,
                 valid |-> CoroParam_is_valid(p, world, owner)]
    /\ UNCHANGED <<world, registry, running, ticking, cancelled, notSched>>

NextV ==
    \/ \E f \in ValidFns, owner \in Entities : Register(f, owner)
    \/ \E e \in Mortal : Despawn(e)
    \/ \E e \in Mortal, T \in CompTypes : RemoveComponent(e, T)
    \/ \E p \in ParamTypes, owner \in Owners : ParamIsValid(p, owner)
    \/ TickBegin
    \/ TickEnd

SpecV == InitV /\ [][NextV]_vars

(* ---------------------------- combinators ---------------------------- *)

\* ParOr::new: no child, Running.
ParOr_new(fib) == [kind |-> "ParOr", coroutines |-> <<>>, state |-> "Running"]

\* A mutant of ParOr_with: the child is put in front of the others.
ParOr_with_front(self, fib, w, uninit) ==
    LET c == init(uninit.params, fib.owner, w)
    IN  IF c.some
        THEN [self EXCEPT !.coroutines =
                 <<[coro |-> c, need |-> uninit.need, polls |-> 0, id |-> Len(@) + 1]>> \o @]
        ELSE self

\* ParOr::with: the child is constructed for the parent's owner against the
\* store behind the parent's window, and pushed when init returned Some.
\* uninit is the child function: its parameter tuple and the resumes its body needs.
ParOr_with(self, fib, w, uninit) ==
    LET c == init(uninit.params, fib.owner, w)
    IN  IF c.some
        THEN [self EXCEPT !.coroutines =
                 Append(@, [coro |-> c, need |-> uninit.need, polls |-> 0, id |-> Len(@) + 1])]
        ELSE self

\* A mutant of ParOr_poll: a halted race asks to be polled again.
ParOr_poll_stays_halted(self, fib) ==
    IF self.state = "Halted" \/ self.coroutines = <<>>
    THEN [self |-> self, fib |-> send(fib, "NextTick"), poll |-> "Pending", coroutines |-> <<>>]
    ELSE [self |-> [self EXCEPT !.state = "Halted", !.coroutines = <<>>],
          fib |-> send(fib, "ParOr"), poll |-> "Pending", coroutines |-> self.coroutines]

\* A mutant of ParOr_poll: a resolved race is left Halted.
ParOr_poll_no_restore(self, fib) ==
    IF self.state = "Halted"
    THEN [self |-> self, fib |-> fib, poll |-> "Ready", coroutines |-> <<>>]
    ELSE IF self.coroutines = <<>>
    THEN [self |-> self, fib |-> fib, poll |-> "Ready", coroutines |-> <<>>]
    ELSE [self |-> [self EXCEPT !.state = "Halted", !.coroutines = <<>>],
          fib |-> send(fib, "ParOr"), poll |-> "Pending", coroutines |-> self.coroutines]

\* A mutant of ParOr_poll: a race without children halts like any other.
ParOr_poll_halts_empty(self, fib) ==
    IF self.state = "Halted"
    THEN [self |-> [self EXCEPT !.state = "Running"], fib |-> fib,
          poll |-> "Ready", coroutines |-> <<>>]
    ELSE [self |-> [self EXCEPT !.state = "Halted", !.coroutines = <<>>],
          fib |-> send(fib, "ParOr"), poll |-> "Pending", coroutines |-> self.coroutines]

\* A mutant of ParOr_poll: the children are sent and kept as well.
ParOr_poll_keeps_children(self, fib) ==
    IF self.state = "Halted"
    THEN [self |-> [self EXCEPT !.state = "Running"], fib |-> fib,
          poll |-> "Ready", coroutines |-> <<>>]
    ELSE IF self.coroutines = <<>>
    THEN [self |-> self, fib |-> fib, poll |-> "Ready", coroutines |-> <<>>]
    ELSE [self |-> [self EXCEPT !.state = "Halted"],
          fib |-> send(fib, "ParOr"), poll |-> "Pending", coroutines |-> self.coroutines]

\* ParOr::poll.  Halted: back to Running, Ready.  Running: Ready when there is
\* no child; otherwise Halted, the children taken and sent as the reason, Pending.
ParOr_poll(self, fib) ==
    IF self.state = "Halted"
    THEN [self |-> [self EXCEPT !.state = "Running"], fib |-> fib,
          poll |-> "Ready", coroutines |-> <<>>]
    ELSE IF self.coroutines = <<>>
    THEN [self |-> self, fib |-> fib, poll |-> "Ready", coroutines |-> <<>>]
    ELSE [self |-> [self EXCEPT !.state = "Halted", !.coroutines = <<>>],
          fib |-> send(fib, "ParOr"), poll |-> "Pending", coroutines |-> self.coroutines]

\* ParAnd::new, ParAnd::with, ParAnd::poll: the join, of the same shape.
ParAnd_new(fib) == [kind |-> "ParAnd", coroutines |-> <<>>, state |-> "Running"]

ParAnd_with(self, fib, w, uninit) ==
    LET c == init(uninit.params, fib.owner, w)
    IN  IF c.some
        THEN [self EXCEPT !.coroutines =
                 Append(@, [coro |-> c, need |-> uninit.need, polls |-> 0, id |-> Len(@) + 1])]
        ELSE self

ParAnd_poll(self, fib) ==
    IF self.state = "Halted"
    THEN [self |-> [self EXCEPT !.state = "Running"], fib |-> fib,
          poll |-> "Ready", coroutines |-> <<>>]
    ELSE IF self.coroutines = <<>>
    THEN [self |-> self, fib |-> fib, poll |-> "Ready", coroutines |-> <<>>]
    ELSE [self |-> [self EXCEPT !.state = "Halted", !.coroutines = <<>>],
          fib |-> send(fib, "ParAnd"), poll |-> "Pending", coroutines |-> self.coroutines]

\* Fib::par_or: ParOr::new(context).with(c)
Fib_par_or(fib, w, uninit) == ParOr_with(ParOr_new(fib), fib, w, uninit)

\* A mutant of Fib_par_and: the race is built in place of the join.
Fib_par_and_as_or(fib, w, uninit) == ParOr_with(ParOr_new(fib), fib, w, uninit)

\* Fib::par_and: ParAnd::new(context).with(c)
Fib_par_and(fib, w, uninit) == ParAnd_with(ParAnd_new(fib), fib, w, uninit)

Comb_with(self, fib, w, uninit) ==
    IF self.kind = "ParOr" THEN ParOr_with(self, fib, w, uninit)
    ELSE ParAnd_with(self, fib, w, uninit)

Comb_poll(self, fib) ==
    IF self.kind = "ParOr" THEN ParOr_poll(self, fib) ELSE ParAnd_poll(self, fib)

(* ------------------- the driver and a combinator ----------------------- *)

\* The body of a child: it waits for the next tick until its last resume.
child_body(ch) ==
    IF ch.polls + 1 >= ch.need THEN [poll |-> "Ready", send |-> NoReason]
    ELSE [poll |-> "Pending", send |-> "NextTick"]

\* The driver resumes one child.
resume_child(ch) ==
    LET r == resume(ch.coro, child_body(ch))
    IN  [child |-> [ch EXCEPT !.coro = r.coro, !.polls = @ + 1], result |-> r.result]

\* One pass of the driver over the children it holds, in the order added.
pass(children) == [i \in 1..Len(children) |-> resume_child(children[i])]

NotDone(r) == r.result # "Done"

\* What the driver does with a pass.  Race: one Done drops every child and
\* wakes the parent.  Join: the Done children leave the list, and the parent
\* is woken when the list is empty.  With no child held there is nothing to do.
drive(mode, done) ==
    LET left == SelectSeq(done, NotDone)
        rest == [i \in 1..Len(left) |-> left[i].child]
    IN  IF done = <<>> THEN [held |-> NoWait, wake |-> FALSE]
        ELSE IF mode = "ParOr"
        THEN IF Len(left) < Len(done)
             THEN [held |-> NoWait, wake |-> TRUE]
             ELSE [held |-> [mode |-> mode, children |-> rest], wake |-> FALSE]
        ELSE IF rest = <<>>
             THEN [held |-> NoWait, wake |-> TRUE]
             ELSE [held |-> [mode |-> mode, children |-> rest], wake |-> FALSE]

notPar == <<resumeVars, accessVars, schedVars, durVars>>

\* The parents: a function with the control parameter, alone or with one more.
ParentFns == {<<[kind |-> "Fib", comp |-> "A"]>>}
                 \cup {<<[kind |-> "Fib", comp |-> "A"], p>> : p \in ParamTypes}

\* The owners of a parent: an entity, or none.
ParentOwners == {"e1", NoOwner}

\* The children: functions of no or one parameter, with the resumes they need.
ChildFns == [params : {<<>>} \cup {<<p>> : p \in ParamTypes}, need : 1..MaxNeed]

\* The store of this part: component B is not registered.
WorldsP == {w \in Worlds : w.registered = {"A"}}

MaxTicks == MaxNeed + 1

InitP ==
    /\ world \in WorldsP
    /\ InitResume
    /\ InitAccess
    /\ InitSched
    /\ InitDur
    /\ called = "none"
    /\ comb = NoComb
    /\ held = NoWait
    /\ kids = <<>>
    /\ offered = 0
    /\ ppos = "idle"
    /\ wake = FALSE
    /\ tick = 0
    /\ resolvedAt = -1
    /\ lastWith = NoWith
    /\ ptally = NoPolls
    /\ parent \in {c \in {init(f, o, world) : f \in ParentFns, o \in ParentOwners} : c.some}

Kid(ch) == [need |-> ch.need, at |-> {}]

\* The children of comb beyond the first n have just been added.
Added(n, c) == [i \in 1..(Len(c.coroutines) - n) |-> Kid(c.coroutines[n + i])]

\* The driver resumes the parent for the first time: its body runs in scope.
ParentResume ==
    /\ ppos = "idle"
    /\ parent' = scope_enter(parent)
    /\ ppos' = "body"
    /\ UNCHANGED <<world, called, comb, held, kids, offered, wake, tick, resolvedAt,
                   lastWith, ptally, notPar>>

\* The body calls fib.par_or(c).
ParOrNew(uninit) ==
    /\ ppos = "body" /\ comb = NoComb /\ parent.window = "open"
    /\ called' = "par_or"
    /\ comb' = Fib_par_or(parent, world, uninit)
    /\ kids' = kids \o Added(0, comb')
    /\ offered' = 1
    /\ lastWith' = [asked |-> TRUE, before |-> ParOr_new(parent), uninit |-> uninit]
    /\ UNCHANGED <<world, parent, held, ppos, wake, tick, resolvedAt, ptally, notPar>>

\* The body calls fib.par_and(c).
ParAndNew(uninit) ==
    /\ ppos = "body" /\ comb = NoComb /\ parent.window = "open"
    /\ called' = "par_and"
    /\ comb' = Fib_par_and(parent, world, uninit)
    /\ kids' = kids \o Added(0, comb')
    /\ offered' = 1
    /\ lastWith' = [asked |-> TRUE, before |-> ParAnd_new(parent), uninit |-> uninit]
    /\ UNCHANGED <<world, parent, held, ppos, wake, tick, resolvedAt, ptally, notPar>>

\* The body calls .with(c) on the combinator.
With(uninit) ==
    /\ ppos = "body" /\ comb # NoComb /\ parent.window = "open"
    /\ offered < MaxChildren
    /\ comb' = Comb_with(comb, parent, world, uninit)
    /\ kids' = kids \o Added(Len(comb.coroutines), comb')
    /\ offered' = offered + 1
    /\ lastWith' = [asked |-> TRUE, before |-> comb, uninit |-> uninit]
    /\ UNCHANGED <<world, parent, called, held, ppos, wake, tick, resolvedAt, ptally, notPar>>

\* The tally after a poll of the combinator that returned r.
Polled(r) ==
    [polls |-> ptally.polls + 1,
     pendings |-> ptally.pendings + (IF r.poll = "Pending" THEN 1 ELSE 0),
     restored |-> ptally.restored
                    + (IF comb.state = "Halted" /\ r.self.state = "Running" THEN 1 ELSE 0)]

\* The rest of a resume of the parent, from the poll of the combinator its
\* body awaits: a Ready combinator lets the body run to its end.
Awaited(p) ==
    LET r == Comb_poll(comb, p)
        m == resume_match(scope_exit(r.fib), r.poll)
    IN  /\ comb' = r.self
        /\ parent' = m.coro
        /\ wake' = FALSE
        /\ ptally' = Polled(r)
        /\ lastWith' = NoWith
        /\ IF m.result = "Done"
           THEN /\ ppos' = "resolved"
                /\ resolvedAt' = tick
                /\ held' = NoWait
           ELSE /\ ppos' = IF m.result = "ERR_WRONGAWAIT" THEN "fatal" ELSE "halted"
                /\ resolvedAt' = resolvedAt
                /\ held' = [mode |-> m.result, children |-> r.coroutines]

\* The body awaits the combinator; the resume call returns.
Await ==
    /\ ppos = "body" /\ comb # NoComb
    /\ Awaited(parent)
    /\ UNCHANGED <<world, called, kids, offered, tick, notPar>>

\* A tick of the driver: one pass over the children it holds.
Tick ==
    /\ ppos \in {"halted", "resolved"} /\ ~wake
    /\ tick < MaxTicks
    /\ tick' = tick + 1
    /\ LET done == pass(held.children)
           d == drive(held.mode, done)
       IN  /\ held' = d.held
           /\ wake' = d.wake
           /\ kids' = [i \in 1..Len(kids) |->
                          IF \E k \in 1..Len(held.children) : held.children[k].id = i
                          THEN [kids[i] EXCEPT !.at = @ \cup {tick + 1}]
                          ELSE kids[i]]
    /\ UNCHANGED <<world, parent, called, comb, offered, ppos, resolvedAt,
                   lastWith, ptally, notPar>>

\* The driver resumes the parent it woke: the body polls the combinator again.
ParentWake ==
    /\ ppos = "halted" /\ wake
    /\ Awaited(scope_enter(parent))
    /\ UNCHANGED <<world, called, kids, offered, tick, notPar>>

\* The combinator is polled again after it resolved, in the resume in which
\* it resolved (a body that awaits it by reference can await it once more).
Repoll ==
    /\ ppos = "resolved" /\ comb # NoComb
    /\ tick = resolvedAt
    /\ ptally.polls < MaxPolls
    /\ LET r == Comb_poll(comb, parent)
       IN  /\ comb' = r.self
           /\ parent' = r.fib
           /\ ptally' = Polled(r)
    /\ UNCHANGED <<world, called, held, kids, offered, ppos, wake, tick, resolvedAt,
                   lastWith, notPar>>

NextP ==
    \/ ParentResume
    \/ \E uninit \in ChildFns : ParOrNew(uninit)
    \/ \E uninit \in ChildFns : ParAndNew(uninit)
    \/ \E uninit \in ChildFns : With(uninit)
    \/ Await
    \/ Tick
    \/ ParentWake
    \/ Repoll

SpecP == InitP /\ [][NextP]_vars

(* --------------------------- duration wait ---------------------------- *)

\* DurationFuture::new: the whole duration remains.
DurationFuture_new(fib, duration) ==
    [duration |-> duration, remaining |-> duration, state |-> "Start"]

\* DurationFuture::poll.  The first poll waits for the next tick.  A later
\* poll takes the length dt of the tick that passed off the remaining time,
\* and is Ready when none remains; otherwise it waits for the next tick.
DurationFuture_poll(self, fib, dt) ==
    IF self.state = "Start"
    THEN [self |-> [self EXCEPT !.state = "Waiting"], fib |-> send(fib, "NextTick"),
          poll |-> "Pending"]
    ELSE IF self.remaining - dt <= 0
    THEN [self |-> [self EXCEPT !.remaining = @ - dt, !.state = "Done"], fib |-> fib,
          poll |-> "Ready"]
    ELSE [self |-> [self EXCEPT !.remaining = @ - dt], fib |-> send(fib, "NextTick"),
          poll |-> "Pending"]

\* A mutant of Fib_duration: the wait of next_tick is returned.
Fib_duration_as_next_tick(fib, duration) == DurationFuture_new(fib, 0)

\* Fib::duration: DurationFuture::new(context, duration)
Fib_duration(fib, duration) == DurationFuture_new(fib, duration)

notDur == <<resumeVars, accessVars, schedVars, parVars>>

InitD ==
    /\ world \in WorldsP
    /\ InitResume
    /\ InitAccess
    /\ InitSched
    /\ InitPar
    /\ wanted = 0
    /\ timer = NoTimer
    /\ deltas = <<>>
    /\ dpos = "idle"
    /\ waiter \in {c \in {init(f, o, world) : f \in ParentFns, o \in ParentOwners} : c.some}

\* The rest of a resume of the waiter w, from the poll of the wait t it awaits.
Waited(t, w, dt) ==
    LET r == DurationFuture_poll(t, w, dt)
        m == resume_match(scope_exit(r.fib), r.poll)
    IN  /\ timer' = r.self
        /\ waiter' = m.coro
        /\ dpos' = CASE m.result = "Done" -> "done"
                     [] m.result = "ERR_WRONGAWAIT" -> "fatal"
                     [] OTHER -> "waiting"

\* The first resume: the body calls fib.duration(d) and awaits it.
DurStart(d) ==
    /\ dpos = "idle"
    /\ wanted' = d
    /\ LET entered == scope_enter(waiter)
       IN  Waited(Fib_duration(entered, d), entered, 0)
    /\ UNCHANGED <<world, deltas, notDur>>

\* A tick of length dt passed; the driver resumes the waiter.
DurTick(dt) ==
    /\ dpos = "waiting"
    /\ Len(deltas) <= MaxDuration
    /\ deltas' = Append(deltas, dt)
    /\ Waited(timer, scope_enter(waiter), dt)
    /\ UNCHANGED <<world, wanted, notDur>>

NextD ==
    \/ \E d \in 0..MaxDuration : DurStart(d)
    \/ \E dt \in 1..MaxDelta : DurTick(dt)

SpecD == InitD /\ [][NextD]_vars

(* ------------------------- claims: resume ----------------------------- *)

\* A resume call has returned to the driver.
Returned == phase \in {"idle", "done"} /\ resumes > 0

\* The match of a resume call has been made: it returned or ended in the error.
Matched == phase \in {"idle", "done", "fatal"} /\ resumes > 0

\* C1: a resume call whose one poll completed returns Done, and no other does;
\* one whose poll suspended after sending a reason returns that very reason.
C1_ResumeResult ==
    /\ Matched =>
           /\ poll \in {"Ready", "Pending"}
           /\ poll = "Ready" => Returned /\ result = "Done"
           /\ (poll = "Pending" /\ sent # NoReason) => Returned /\ result = sent
    /\ Returned =>
           /\ result = "Done" => poll = "Ready"
           /\ result # "Done" => poll = "Pending" /\ sent \in Reasons /\ result = sent

\* A second resume has returned the reason sent in its own poll.
C1_Witness ==
    /\ Returned
    /\ resumes = 2
    /\ poll = "Pending"
    /\ result = "ParOr"

\* C2: the world window is open exactly while a resume call is between the
\* entry and the exit of its scope; it is closed at construction, before and
\* after every resume, and after a poll that completed, suspended or unwound.
C2_WindowOnlyInResume ==
    coro.window = "open" <=> phase \in {"scoped", "polled"}

\* The body unwound and the resume call left its scope.
C2_Witness == phase = "unwound" /\ poll = "Unwind" /\ coro.window = "closed"

\* C3: a body that suspends without sending a reason ends the resume call in
\* the fatal error, never in Done or Pending, with the window closed.
C3_ProtocolViolationFatal ==
    /\ (phase \in {"idle", "done", "fatal"} /\ poll = "Pending" /\ sent = NoReason)
           => phase = "fatal"
    /\ phase = "fatal" =>
           /\ result = "ERR_WRONGAWAIT"
           /\ poll = "Pending" /\ sent = NoReason
           /\ coro.window = "closed"

\* The fatal error surfaced on a resume that followed a regular one.
C3_Witness == phase = "fatal" /\ resumes = 2

(* ----------------------- claims: construction ------------------------- *)

\* What a parameter needs from the store and the owner, stated per parameter.
Constructible(p, w, owner) ==
    p.kind = "Fib" \/ (p.comp \in w.registered /\ owner # NoOwner)

\* Two parameters of one tuple ask for conflicting access.
Clash(p, q) ==
    /\ p.kind # "Fib" /\ q.kind # "Fib"
    /\ p.comp = q.comp
    /\ "Wr" \in {p.kind, q.kind}

AllConstructible(f, w, owner) ==
    /\ \A i \in 1..Len(f) : Constructible(f[i], w, owner)
    /\ \A i, j \in 1..Len(f) : i < j => ~Clash(f[i], f[j])

\* C4: construction is all or nothing.  A coroutine exists iff every declared
\* parameter could be constructed; a failed construction invokes nothing and
\* leaves no reservation; a coroutine holds an entry for each of its parameters.
C4_ConstructionAllOrNothing ==
    phase # "new" =>
        /\ coro.some <=> AllConstructible(asked.f, world, asked.owner)
        /\ ~coro.some =>
               /\ phase = "rejected"
               /\ ~coro.invoked
               /\ access(coro) = EmptyAccess
               /\ resumes = 0
        /\ coro.some =>
               /\ coro.invoked
               /\ \A i \in 1..Len(asked.f) :
                      LET p == asked.f[i]
                      IN  /\ p.kind = "Rd" => Key(asked.owner, p.comp) \in access(coro).reads
                          /\ p.kind = "Wr" => Key(asked.owner, p.comp) \in access(coro).writes

\* A construction failed at its second parameter, after the first had reserved.
C4_Witness ==
    /\ phase = "rejected"
    /\ Len(asked.f) = 2
    /\ Params_init(asked.f, world, asked.owner, EmptyAccess).access # EmptyAccess

(* ----------------------- claims: access set --------------------------- *)

\* The last call asked for an entry on a key the store and the owner allow.
Asked(op) ==
    \/ last.op = op
    \/ /\ last.op = (IF op = "add_read" THEN "Rd" ELSE "Wr")
       /\ last.key[1] # NoOwner
       /\ last.key[2] \in world.registered

\* C5: no key is both read and written; add_read is refused iff the key is
\* written, add_write iff it is read or written; a refused call leaves the set
\* as it was, a granted call adds its entry and nothing else.
C5_ReadsOrOneWrite ==
    /\ aset.reads \cap aset.writes = {}
    /\ Asked("add_read") =>
           /\ last.ok <=> last.key \notin last.before.writes
           /\ last.ok => aset = [last.before EXCEPT !.reads = @ \cup {last.key}]
    /\ Asked("add_write") =>
           /\ last.ok <=> last.key \notin (last.before.reads \cup last.before.writes)
           /\ last.ok => aset = [last.before EXCEPT !.writes = @ \cup {last.key}]
    /\ ~last.ok => aset = last.before

\* A write parameter was refused on a key that is already read, and a read
\* entry stands beside a write entry of another key.
C5_Witness ==
    /\ last.op = "Wr" /\ ~last.ok
    /\ last.key \in aset.reads
    /\ aset.writes # {}

(* ------------------------ claims: scheduling -------------------------- *)

\* C6: no two coroutines run in the same tick hold conflicting entries (the
\* same entity and field, one of them a write), and every coroutine left out
\* of a tick conflicts with one that runs in it.
C6_NoConflictInTick ==
    ticking =>
        /\ \A i, j \in 1..Len(running) :
               i # j => ~Conflicts(registry[running[i]].access, registry[running[j]].access)
        /\ \A n \in 1..Len(registry) :
               (\A i \in 1..Len(running) : running[i] # n) =>
                   \E i \in 1..Len(running) :
                       Conflicts(registry[n].access, registry[running[i]].access)

\* Two writers of one field of one entity are registered; one runs, one waits.
C6_Witness ==
    /\ ticking
    /\ Len(registry) = 3
    /\ Len(running) = 2
    /\ \E n, m \in 1..Len(registry) :
           /\ n # m
           /\ registry[n].access.writes \cap registry[m].access.writes # {}

(* ------------------------ claims: combinators ------------------------- *)

\* The children in hand: those of the combinator and those the driver holds.
Children == comb.coroutines \o held.children

\* C7: a child whose access conflicts with the access of the parent or of a
\* child added before it is not in the child list, so is never driven.
C7_ConflictingChildSkipped ==
    \A i \in 1..Len(Children) :
        /\ ~Conflicts(Children[i].coro.access, parent.access)
        /\ \A j \in 1..Len(Children) :
               i # j => ~Conflicts(Children[i].coro.access, Children[j].coro.access)

Needs == {kids[i].need : i \in 1..Len(kids)}
FirstDone == CHOOSE n \in Needs : \A m \in Needs : n <= m
LastDone == CHOOSE n \in Needs : \A m \in Needs : n >= m
Least(a, b) == IF a <= b THEN a ELSE b

\* The parent has suspended on a combinator that has children.
Suspended(method) ==
    called = method /\ kids # <<>> /\ ppos \in {"halted", "resolved", "fatal"}

\* C8: a race resolves at the first tick at which a child reports Done: the
\* parent is woken and resolves in that tick, not before; every child is
\* resumed in each tick up to that one and in none after it.
C8_RaceResolvesAtFirstDone ==
    Suspended("par_or") =>
        /\ (wake \/ ppos = "resolved") <=> tick >= FirstDone
        /\ ppos = "resolved" => resolvedAt = FirstDone /\ held = NoWait
        /\ \A i \in 1..Len(kids) : kids[i].at = 1..Least(tick, FirstDone)

\* Children done at ticks 2 and 5: the race resolved at tick 2, the second
\* child was resumed at ticks 1 and 2 only, and the driver has ticked past 5.
C8_Witness ==
    /\ called = "par_or"
    /\ Len(kids) = 2 /\ kids[1].need = 2 /\ kids[2].need = 5
    /\ ppos = "resolved" /\ resolvedAt = 2
    /\ kids[2].at = {1, 2}
    /\ tick > 5

\* C9: a join resolves at the tick at which its last child reports Done and
\* not before; a child is resumed in each tick up to the one at which it
\* reports Done, leaves the pending list at that tick and is not resumed again.
C9_JoinResolvesAtLastDone ==
    Suspended("par_and") =>
        /\ (wake \/ ppos = "resolved") <=> tick >= LastDone
        /\ ppos = "resolved" => resolvedAt = LastDone /\ held = NoWait
        /\ \A i \in 1..Len(kids) : kids[i].at = 1..Least(tick, kids[i].need)
        /\ {held.children[k].id : k \in 1..Len(held.children)}
               = {i \in 1..Len(kids) : kids[i].need > tick}

\* Children done at ticks 2 and 5: the join resolved at tick 5 and the first
\* child was resumed at ticks 1 and 2 only.
C9_Witness ==
    /\ called = "par_and"
    /\ Len(kids) = 2 /\ kids[1].need = 2 /\ kids[2].need = 5
    /\ ppos = "resolved" /\ resolvedAt = 5
    /\ kids[1].at = {1, 2}

(* ------------------------ claims: duration wait ----------------------- *)

RECURSIVE Sum(_)
Sum(q) == IF q = <<>> THEN 0 ELSE Head(q) + Sum(Tail(q))

\* The time accumulated over the first n resumes.
Elapsed(n) == Sum(SubSeq(deltas, 1, n))

\* C10: a duration wait resolves on the first resume at which the accumulated
\* tick lengths reach the duration: not while they are short of it, not
\* before one tick has passed, and not later than the resume that reaches it.
C10_DurationResolves ==
    /\ dpos = "done" =>
           /\ Len(deltas) >= 1
           /\ Elapsed(Len(deltas)) >= wanted
           /\ \A n \in 1..(Len(deltas) - 1) : Elapsed(n) < wanted
    /\ dpos = "waiting" =>
           \A n \in 1..Len(deltas) : Elapsed(n) < wanted
    /\ dpos # "fatal"

\* A wait of 1.5 ticks (3 units, ticks of 2 units) resolved on the 2nd resume.
C10_Witness ==
    /\ dpos = "done"
    /\ wanted = 3
    /\ deltas = <<2, 2>>

\* A coroutine with a component parameter can still run: its owner is alive
\* and has every component the parameters name.
CanRun(c) ==
    \A i \in 1..Len(c.params) :
        c.params[i].kind \in {"Rd", "Wr"} =>
            /\ c.owner \in world.alive
            /\ c.params[i].comp \in world.comps[c.owner]

\* C11: a coroutine whose is_valid turned false between two ticks is not
\* resumed in the next tick or later and has left the registry: during a tick
\* every coroutine of the registry, and so every coroutine selected to be
\* resumed, can still run, and the coroutines cancelled are those that cannot.
C11_InvalidCancelledNotResumed ==
    ticking =>
        /\ \A n \in 1..Len(registry) : CanRun(registry[n])
        /\ \A k \in 1..Len(running) :
               running[k] \in 1..Len(registry) /\ CanRun(registry[running[k]])

C11_Witness ==
    /\ ticking
    /\ cancelled > 0
    /\ running # <<>>

\* C18: the validity check of a component parameter is true exactly when the
\* owner is an entity that is alive in the store and has the component; the
\* check of the control parameter is always true.
C18_ParamValidity ==
    vlast.asked =>
        vlast.valid =
            IF vlast.param.kind = "Fib" THEN TRUE
            ELSE /\ vlast.owner \in Entities
                 /\ vlast.owner \in world.alive
                 /\ vlast.param.comp \in world.comps[vlast.owner]

C18_Witness ==
    /\ vlast.asked
    /\ vlast.param.kind = "Wr"
    /\ vlast.owner \in world.alive
    /\ vlast.param.comp \notin world.comps[vlast.owner]
    /\ ~vlast.valid

Declared(f, owner) ==
    [reads |-> {Key(owner, f[i].comp) : i \in {j \in 1..Len(f) : f[j].kind = "Rd"}},
     writes |-> {Key(owner, f[i].comp) : i \in {j \in 1..Len(f) : f[j].kind = "Wr"}}]

\* C20: the access set is fixed at construction: in every state of a
\* constructed coroutine, whatever resume and is_valid calls were made,
\* access() is the set its function declared.
C20_AccessFixed ==
    coro.some => access(coro) = Declared(asked.f, asked.owner)

C20_Witness ==
    /\ probe.op = "is_valid"
    /\ resumes > 1
    /\ access(coro).writes # {}
    /\ access(coro).reads # {}

\* The component is known to the store and the coroutine has an owner.
Known == last.key[2] \in world.registered /\ last.key[1] # NoOwner

\* C17: Rd<T>::init adds the read entry (owner, T) and Wr<T>::init the write
\* entry (owner, T); each returns none and adds nothing when T is not
\* registered, when there is no owner, or when the set refuses the entry (a
\* read of a written key, a write of a read or written key); Fib::init always
\* succeeds and adds nothing.
C17_ParamReservesAccess ==
    /\ last.op = "Rd" =>
           /\ last.ok <=> (Known /\ last.key \notin last.before.writes)
           /\ aset = IF last.ok THEN [last.before EXCEPT !.reads = @ \cup {last.key}]
                      ELSE last.before
    /\ last.op = "Wr" =>
           /\ last.ok <=>
                  (Known /\ last.key \notin (last.before.reads \cup last.before.writes))
           /\ aset = IF last.ok THEN [last.before EXCEPT !.writes = @ \cup {last.key}]
                      ELSE last.before
    /\ last.op = "Fib" => last.ok /\ aset = last.before

C17_Witness ==
    /\ last.op = "Rd" /\ last.ok
    /\ last.before.writes # {}
    /\ last.key \notin last.before.reads
    /\ last.key \in aset.reads

\* C14: a race with at least one child, polled Running, sends one reason of
\* mode race that carries all its children in the order they were added,
\* moves to Halted and returns Pending; the next poll resolves it and puts
\* the state back to Running, once for the one halted wait.
C14_RaceHaltsThenResolves ==
    (called = "par_or" /\ kids # <<>>) =>
        /\ ppos = "body" => comb.state = "Running" /\ ptally = NoPolls
        /\ ppos = "halted" =>
               /\ comb.state = "Halted"
               /\ ptally = [polls |-> 1, pendings |-> 1, restored |-> 0]
               /\ tick = 0 =>
                      /\ held.mode = "ParOr"
                      /\ Len(held.children) = Len(kids)
                      /\ \A k \in 1..Len(kids) :
                             /\ held.children[k].id = k
                             /\ held.children[k].need = kids[k].need
        /\ ppos = "resolved" =>
               /\ comb.state = "Running"
               /\ ptally.pendings = 1
               /\ ptally.restored = 1
        /\ ppos # "fatal"

C14_Witness ==
    /\ called = "par_or"
    /\ Len(kids) = 2 /\ kids[1].need = 3 /\ kids[2].need = 1
    /\ ppos = "resolved"
    /\ comb.state = "Running"
    /\ ptally.restored = 1

\* C15: a race without children (every child offered failed to construct)
\* resolves on its first poll: Ready, no reason sent, state Running.
C15_EmptyRaceResolvesAtOnce ==
    (called = "par_or" /\ kids = <<>> /\ ppos \notin {"idle", "body"}) =>
        /\ ppos = "resolved"
        /\ resolvedAt = 0
        /\ comb.state = "Running"
        /\ ptally.pendings = 0
        /\ held = NoWait
        /\ parent.channel = NoReason

C15_Witness ==
    /\ called = "par_or"
    /\ kids = <<>>
    /\ offered = 2
    /\ ppos = "resolved"
    /\ ptally.polls = 1

\* C16: with(child) puts the child at the end of the child list iff its
\* construction against the store succeeds; otherwise the combinator is what
\* it was; either way the children it had and its state stay, and the body
\* goes on.
C16_WithAddsIffConstructed ==
    lastWith.asked =>
        LET before == lastWith.before
            n == Len(before.coroutines)
            ok == AllConstructible(lastWith.uninit.params, world, parent.owner)
        IN  /\ ppos = "body"
            /\ comb.kind = before.kind
            /\ comb.state = before.state
            /\ ~ok => comb = before
            /\ ok =>
                   /\ Len(comb.coroutines) = n + 1
                   /\ SubSeq(comb.coroutines, 1, n) = before.coroutines
                   /\ comb.coroutines[n + 1].coro.some
                   /\ comb.coroutines[n + 1].coro.params = lastWith.uninit.params
                   /\ comb.coroutines[n + 1].coro.owner = parent.owner
                   /\ comb.coroutines[n + 1].need = lastWith.uninit.need

\* A child was added, then one failed to construct.
C16_Witness ==
    /\ lastWith.asked
    /\ called = "par_or"
    /\ offered = 2
    /\ Len(lastWith.before.coroutines) = 1
    /\ comb = lastWith.before
    /\ lastWith.uninit.params # <<>>

\* C19: one race returns Pending, and sends a reason, at most once however
\* often it is polled: once it has yielded its child list is empty, and a
\* poll after it resolved resolves again and sends nothing.
C19_RaceYieldsAtMostOnce ==
    called = "par_or" =>
        /\ ptally.pendings <= 1
        /\ ptally.pendings = 1 => comb.coroutines = <<>>
        /\ ppos = "resolved" => parent.channel = NoReason

C19_Witness ==
    /\ called = "par_or"
    /\ ppos = "resolved"
    /\ ptally.polls = MaxPolls
    /\ ptally.pendings = 1

====
